---- MODULE Spec2Model ----
(***************************************************************************)
(* Model of gemini_torch/model.py: class Gemini (constructor and forward). *)
(*                                                                         *)
(* A tensor is a record [kind, shape, data]: shape is the tuple of sizes,  *)
(* data lists, along axis 0, where each slice came from ("text", "img",    *)
(* "audio"), so that a concatenation along axis 0 is visible in data.      *)
(* Exceptions are instances of Exception (what `except Exception` catches).*)
(***************************************************************************)
EXTENDS Integers, Sequences, FiniteSets, TLC

VARIABLES pc, cfg, gemini, decoder, img_to_text_embedding,
          audio_to_lang_embedding, call, text, img, audio, fused,
          trace, stdout, exc, ret

vars == <<pc, cfg, gemini, decoder, img_to_text_embedding,
          audio_to_lang_embedding, call, text, img, audio, fused,
          trace, stdout, exc, ret>>

attrs == <<gemini, decoder, img_to_text_embedding, audio_to_lang_embedding>>

locals == <<call, text, img, audio, fused>>

\* ---------------------------------------------------------------- bounds
MaxBatch == 2

MaxSeq == 2

MaxDim == 2

Batches == 1..MaxBatch

SeqLens == 1..MaxSeq

Dims == 1..MaxDim

\* ---------------------------------------------------------------- values
None == [kind |-> "None"]

exists(val) == val # None

Tensor(shape, label) ==
    [kind |-> "Tensor", shape |-> shape, data |-> [i \in 1..shape[1] |-> label]]

Error(type, origin) == [kind |-> "Exception", type |-> type, origin |-> origin]

\* text: token ids [batch, seq] or embeddings [batch, seq, dim], or absent
TextInputs ==
    {None}
    \cup {Tensor(<<b, s>>, "text") : b \in Batches, s \in SeqLens}
    \cup {Tensor(<<b, s, d>>, "text") : b \in Batches, s \in SeqLens, d \in Dims}

\* img: [batch, channels, height, width]; only the batch size is modelled
ImgInputs == {None} \cup {Tensor(<<b>>, "img") : b \in Batches}

\* audio: [batch, audio_seq_len]; only the batch size is modelled
AudioInputs == {None} \cup {Tensor(<<b>>, "audio") : b \in Batches}

\* ----------------------------------------------------------- construction
Init ==
    /\ pc = "new"
    /\ cfg = None
    /\ gemini = None
    /\ decoder = None
    /\ img_to_text_embedding = None
    /\ audio_to_lang_embedding = None
    /\ call = None
    /\ text = None
    /\ img = None
    /\ audio = None
    /\ fused = None
    /\ trace = <<>>
    /\ stdout = <<>>
    /\ exc = None
    /\ ret = None

\* the value one call of a function or constructor produced: fn(args) -> out
Invocation(fn, args, out) == [fn |-> fn, args |-> args, out |-> out]

\* Gemini(dim=d): the call binds the hyperparameters and enters the try block
Construct ==
    /\ pc = "new"
    /\ \E d \in Dims : cfg' = [kind |-> "Config", dim |-> d]
    /\ pc' = "L65"
    /\ UNCHANGED <<attrs, locals, trace, stdout, exc, ret>>

\* keyword arguments of Transformer(attn_layers=Decoder(dim=dim, ...))
TransformerKwargs(c) == [cls |-> "Transformer", dim |-> c.dim]

\* keyword arguments of the ImageToTextEmbeddings(...) call
ImgEncoderKwargs(c) == [cls |-> "ImageToTextEmbeddings", dim |-> c.dim]

\* keyword arguments of the AudioToEmbeddings(...) call: no dim is passed
AudioEncoderKwargs(c) == [cls |-> "AudioToEmbeddings"]

\* hidden dimensions an encoder built with these arguments may embed into:
\* the dim it was given, else whatever the encoder falls back to
EncoderDims(kwargs) ==
    IF "dim" \in DOMAIN kwargs THEN {kwargs.dim} ELSE Dims

\* self.gemini = Transformer(..., attn_layers=Decoder(dim=dim, ...))
BuildTransformer ==
    /\ pc = "L65"
    /\ \/ /\ gemini' = [kind |-> "Transformer", kwargs |-> TransformerKwargs(cfg)]
          /\ trace' = Append(trace,
                 Invocation("Transformer", TransformerKwargs(cfg), gemini'))
          /\ pc' = "L85"
          /\ UNCHANGED exc
       \/ /\ exc' = Error("Exception", "Transformer")
          /\ trace' = Append(trace,
                 Invocation("Transformer", TransformerKwargs(cfg), exc'))
          /\ pc' = "L100"
          /\ UNCHANGED gemini
    /\ UNCHANGED <<cfg, decoder, img_to_text_embedding,
                   audio_to_lang_embedding, locals, stdout, ret>>

\* self.decoder = AutoregressiveWrapper(self.gemini)
BuildWrapper ==
    /\ pc = "L85"
    /\ \/ /\ decoder' = [kind |-> "AutoregressiveWrapper", net |-> gemini]
          /\ trace' = Append(trace,
                 Invocation("AutoregressiveWrapper", <<gemini>>, decoder'))
          /\ pc' = "L88"
          /\ UNCHANGED exc
       \/ /\ exc' = Error("Exception", "AutoregressiveWrapper")
          /\ trace' = Append(trace,
                 Invocation("AutoregressiveWrapper", <<gemini>>, exc'))
          /\ pc' = "L100"
          /\ UNCHANGED decoder
    /\ UNCHANGED <<cfg, gemini, img_to_text_embedding,
                   audio_to_lang_embedding, locals, stdout, ret>>

\* self.img_to_text_embedding = ImageToTextEmbeddings(patch_size=patches, dim=dim, ...)
BuildImgEncoder ==
    /\ pc = "L88"
    /\ \/ /\ \E d \in EncoderDims(ImgEncoderKwargs(cfg)) :
                img_to_text_embedding' =
                    [kind |-> "Encoder", kwargs |-> ImgEncoderKwargs(cfg),
                     out_dim |-> d]
          /\ trace' = Append(trace,
                 Invocation("ImageToTextEmbeddings", ImgEncoderKwargs(cfg),
                            img_to_text_embedding'))
          /\ pc' = "L93"
          /\ UNCHANGED exc
       \/ /\ exc' = Error("Exception", "ImageToTextEmbeddings")
          /\ trace' = Append(trace,
                 Invocation("ImageToTextEmbeddings", ImgEncoderKwargs(cfg), exc'))
          /\ pc' = "L100"
          /\ UNCHANGED img_to_text_embedding
    /\ UNCHANGED <<cfg, gemini, decoder, audio_to_lang_embedding,
                   locals, stdout, ret>>

\* self.audio_to_lang_embedding = AudioToEmbeddings(audio_seq_len=..., seqlen=...)
BuildAudioEncoder ==
    /\ pc = "L93"
    /\ \/ /\ \E d \in EncoderDims(AudioEncoderKwargs(cfg)) :
                audio_to_lang_embedding' =
                    [kind |-> "Encoder", kwargs |-> AudioEncoderKwargs(cfg),
                     out_dim |-> d]
          /\ trace' = Append(trace,
                 Invocation("AudioToEmbeddings", AudioEncoderKwargs(cfg),
                            audio_to_lang_embedding'))
          /\ pc' = "idle"
          /\ UNCHANGED exc
       \/ /\ exc' = Error("Exception", "AudioToEmbeddings")
          /\ trace' = Append(trace,
                 Invocation("AudioToEmbeddings", AudioEncoderKwargs(cfg), exc'))
          /\ pc' = "L100"
          /\ UNCHANGED audio_to_lang_embedding
    /\ UNCHANGED <<cfg, gemini, decoder, img_to_text_embedding,
                   locals, stdout, ret>>

\* variant: the handler wraps the caught exception in a new one
InitReraiseWrapped(e) == Error("RuntimeError", "Gemini.__init__")

\* the exception the handler of __init__ raises for the caught e: raise e
InitReraise(e) == e

\* except Exception as e: print("Failed to initialize gemini: ", e); raise e
InitExcept ==
    /\ pc = "L100"
    /\ stdout' = Append(stdout, [prefix |-> "Failed to initialize gemini: ",
                                 arg |-> exc])
    /\ exc' = InitReraise(exc)
    /\ pc' = "init_raised"
    /\ UNCHANGED <<cfg, attrs, locals, trace, ret>>

\* ---------------------------------------------------------------- forward
RECURSIVE SumDim0(_)
SumDim0(ts) == IF ts = <<>> THEN 0 ELSE Head(ts).shape[1] + SumDim0(Tail(ts))

RECURSIVE CatData(_)
CatData(ts) == IF ts = <<>> THEN <<>> ELSE Head(ts).data \o CatData(Tail(ts))

\* torch.cat(tensors) with the default dim=0 accepts tensors of the same
\* number of dimensions whose sizes agree on every axis but axis 0
CatOK(ts) ==
    \A i, j \in 1..Len(ts) :
        /\ Len(ts[i].shape) = Len(ts[j].shape)
        /\ Tail(ts[i].shape) = Tail(ts[j].shape)

\* torch.cat(tensors) with the default dim=0: the sizes on axis 0 add up
Cat(ts) ==
    [kind |-> "Tensor",
     shape |-> <<SumDim0(ts)>> \o Tail(ts[1].shape),
     data |-> CatData(ts)]

\* embeddings an encoder may return for input x: [batch of x, some seq, out_dim]
EncoderOut(enc, x) ==
    {Tensor(<<x.shape[1], s, enc.out_dim>>, enc.kwargs.cls) : s \in SeqLens}

\* the value the decoder returns for one invocation
DecoderOut(args) == [kind |-> "Output", of |-> args]

\* model(text, img, audio): bind the arguments of one call
ForwardCall ==
    /\ pc = "idle"
    /\ \E t \in TextInputs, i \in ImgInputs, a \in AudioInputs :
          /\ call' = [text |-> t, img |-> i, audio |-> a]
          /\ text' = t
          /\ img' = i
          /\ audio' = a
    /\ fused' = None
    /\ trace' = <<>>
    /\ stdout' = <<>>
    /\ exc' = None
    /\ ret' = None
    /\ pc' = "L130"
    /\ UNCHANGED <<cfg, attrs>>

\* print(f"Text shape: {text.shape}"), before the try block
PrintTextShape ==
    /\ pc = "L130"
    /\ IF exists(text)
       THEN /\ stdout' = Append(stdout, [prefix |-> "Text shape: ",
                                         arg |-> text.shape])
            /\ pc' = "L132"
            /\ UNCHANGED exc
       ELSE /\ exc' = Error("AttributeError", "text.shape")
            /\ pc' = "raised"
            /\ UNCHANGED stdout
    /\ UNCHANGED <<cfg, attrs, locals, trace, ret>>

\* if exists(img) and exists(audio) / elif exists(img) / elif exists(audio) / else
Branch(i, a) ==
    IF exists(i) /\ exists(a) THEN "L134"
    ELSE IF exists(i) THEN "L143"
    ELSE IF exists(a) THEN "L151"
    ELSE "L157"

Dispatch ==
    /\ pc = "L132"
    /\ pc' = Branch(img, audio)
    /\ UNCHANGED <<cfg, attrs, locals, trace, stdout, exc, ret>>

\* audio = self.audio_to_lang_embedding(audio), at line `at`, then line `to`
EncodeAudio(at, to) ==
    /\ pc = at
    /\ \/ \E emb \in EncoderOut(audio_to_lang_embedding, audio) :
             /\ audio' = emb
             /\ trace' = Append(trace,
                    Invocation("audio_to_lang_embedding", <<audio>>, emb))
             /\ pc' = to
             /\ UNCHANGED exc
       \/ /\ exc' = Error("Exception", "audio_to_lang_embedding")
          /\ trace' = Append(trace,
                 Invocation("audio_to_lang_embedding", <<audio>>, exc'))
          /\ pc' = "L158"
          /\ UNCHANGED audio
    /\ UNCHANGED <<cfg, attrs, call, text, img, fused, stdout, ret>>

\* img = self.img_to_text_embedding(img), at line `at`, then line `to`
EncodeImg(at, to) ==
    /\ pc = at
    /\ \/ \E emb \in EncoderOut(img_to_text_embedding, img) :
             /\ img' = emb
             /\ trace' = Append(trace,
                    Invocation("img_to_text_embedding", <<img>>, emb))
             /\ pc' = to
             /\ UNCHANGED exc
       \/ /\ exc' = Error("Exception", "img_to_text_embedding")
          /\ trace' = Append(trace,
                 Invocation("img_to_text_embedding", <<img>>, exc'))
          /\ pc' = "L158"
          /\ UNCHANGED img
    /\ UNCHANGED <<cfg, attrs, call, text, audio, fused, stdout, ret>>

\* variant: a failure of the audio encoder is swallowed and line 135 runs
EncodeAudioBothSwallow ==
    /\ pc = "L134"
    /\ \/ \E emb \in EncoderOut(audio_to_lang_embedding, audio) :
             /\ audio' = emb
             /\ trace' = Append(trace,
                    Invocation("audio_to_lang_embedding", <<audio>>, emb))
       \/ /\ trace' = Append(trace,
                 Invocation("audio_to_lang_embedding", <<audio>>,
                            Error("Exception", "audio_to_lang_embedding")))
          /\ UNCHANGED audio
    /\ pc' = "L135"
    /\ UNCHANGED <<cfg, attrs, call, text, img, fused, stdout, exc, ret>>

EncodeAudioBoth == EncodeAudio("L134", "L135")

EncodeImgBoth == EncodeImg("L135", "L139")

\* variant: audio embeddings placed before the image embeddings
FuseOrderSwapped(t, i, a) == <<t, a, i>>

\* the tuple handed to torch.cat on line 139
FuseOrder(t, i, a) == <<t, i, a>>

\* fused = torch.cat((text, img, audio))
Fuse ==
    /\ pc = "L139"
    /\ IF CatOK(FuseOrder(text, img, audio))
       THEN /\ fused' = Cat(FuseOrder(text, img, audio))
            /\ trace' = Append(trace,
                   Invocation("torch.cat", FuseOrder(text, img, audio), fused'))
            /\ pc' = "L140"
            /\ UNCHANGED exc
       ELSE /\ exc' = Error("RuntimeError", "torch.cat")
            /\ trace' = Append(trace,
                   Invocation("torch.cat", FuseOrder(text, img, audio), exc'))
            /\ pc' = "L158"
            /\ UNCHANGED fused
    /\ UNCHANGED <<cfg, attrs, call, text, img, audio, stdout, ret>>

\* return self.decoder(args), at line `at`
Decode(at, args) ==
    /\ pc = at
    /\ \/ /\ ret' = DecoderOut(args)
          /\ trace' = Append(trace, Invocation("decoder", args, ret'))
          /\ pc' = "returned"
          /\ UNCHANGED exc
       \/ /\ exc' = Error("Exception", "decoder")
          /\ trace' = Append(trace, Invocation("decoder", args, exc'))
          /\ pc' = "L158"
          /\ UNCHANGED ret
    /\ UNCHANGED <<cfg, attrs, locals, stdout>>

\* return self.decoder(text, prepend_embeds=fused, ...)
DecodeFused == Decode("L140", [text |-> text, prepend_embeds |-> fused])

\* variant: the encoder call reconfigures the encoder held by the instance
EncodeImgOnlyStateful ==
    /\ pc = "L143"
    /\ \E emb \in EncoderOut(img_to_text_embedding, img) :
          /\ img' = emb
          /\ img_to_text_embedding' =
                 [img_to_text_embedding EXCEPT !.out_dim = emb.shape[2]]
          /\ trace' = Append(trace,
                 Invocation("img_to_text_embedding", <<img>>, emb))
    /\ pc' = "L148"
    /\ UNCHANGED <<cfg, gemini, decoder, audio_to_lang_embedding,
                   call, text, audio, fused, stdout, exc, ret>>

EncodeImgOnly == EncodeImg("L143", "L148")

\* variant: the text is handed over as the prepend sequence
DecodeImgPrependText == Decode("L148", [text |-> text, prepend_embeds |-> text])

\* return self.decoder(text, prepend_embeds=img, ...)
DecodeImg == Decode("L148", [text |-> text, prepend_embeds |-> img])

EncodeAudioOnly == EncodeAudio("L151", "L155")

\* return self.decoder(text, prepend_embeds=audio, ...)
DecodeAudio == Decode("L155", [text |-> text, prepend_embeds |-> audio])

\* variant: the text-only branch still passes a prepend_embeds argument
DecodeTextWithPrepend == Decode("L157", [text |-> text, prepend_embeds |-> None])

\* return self.decoder(text, ...)
DecodeText == Decode("L157", [text |-> text])

\* except Exception as e: print("Failed in forward method: ", e); raise
ForwardExcept ==
    /\ pc = "L158"
    /\ stdout' = Append(stdout, [prefix |-> "Failed in forward method: ",
                                 arg |-> exc])
    /\ pc' = "raised"
    /\ UNCHANGED <<cfg, attrs, locals, trace, exc, ret>>

\* the call is over: its frame (arguments, locals, result) is gone and the
\* instance can be called again
ForwardExit ==
    /\ pc \in {"returned", "raised"}
    /\ call' = None
    /\ text' = None
    /\ img' = None
    /\ audio' = None
    /\ fused' = None
    /\ trace' = <<>>
    /\ stdout' = <<>>
    /\ exc' = None
    /\ ret' = None
    /\ pc' = "idle"
    /\ UNCHANGED <<cfg, attrs>>

Next ==
    \/ Construct
    \/ BuildTransformer
    \/ BuildWrapper
    \/ BuildImgEncoder
    \/ BuildAudioEncoder
    \/ InitExcept
    \/ ForwardCall
    \/ PrintTextShape
    \/ Dispatch
    \/ EncodeAudioBoth
    \/ EncodeImgBoth
    \/ Fuse
    \/ DecodeFused
    \/ EncodeImgOnly
    \/ DecodeImg
    \/ EncodeAudioOnly
    \/ DecodeAudio
    \/ DecodeText
    \/ ForwardExcept
    \/ ForwardExit

Spec == Init /\ [][Next]_vars

\* ------------------------------------------------------------ properties
ForwardPcs == {"idle", "L130", "L132", "L134", "L135", "L139", "L140",
               "L143", "L148", "L151", "L155", "L157", "L158",
               "returned", "raised"}

InCall == pc \in ForwardPcs \ {"idle"}

Idx(fn) == {k \in DOMAIN trace : trace[k].fn = fn}

Count(fn) == Cardinality(Idx(fn))

The(fn) == trace[CHOOSE k \in Idx(fn) : TRUE]

Raised(entry) == entry.out.kind = "Exception"

BothPresent == exists(call.img) /\ exists(call.audio)

OnlyImg == exists(call.img) /\ ~exists(call.audio)

OnlyAudio == ~exists(call.img) /\ exists(call.audio)

TextOnly == exists(call.text) /\ ~exists(call.img) /\ ~exists(call.audio)

\* C1: a forward call with text, img and audio that returns has invoked each
\* encoder exactly once on its own input, has fused (text, image embeddings,
\* audio embeddings) in that order, and has invoked the decoder exactly once
\* with the call's text and the fused sequence as prepend_embeds; the value
\* returned is the decoder's.
C1_FusedForward ==
    (pc = "returned" /\ BothPresent) =>
        /\ Count("audio_to_lang_embedding") = 1
        /\ The("audio_to_lang_embedding").args = <<call.audio>>
        /\ Count("img_to_text_embedding") = 1
        /\ The("img_to_text_embedding").args = <<call.img>>
        /\ Count("torch.cat") = 1
        /\ fused = The("torch.cat").out
        /\ fused.data = call.text.data
                        \o The("img_to_text_embedding").out.data
                        \o The("audio_to_lang_embedding").out.data
        /\ Count("decoder") = 1
        /\ The("decoder").args = [text |-> call.text, prepend_embeds |-> fused]
        /\ ret = The("decoder").out

C1_Witness ==
    /\ pc = "returned"
    /\ BothPresent
    /\ ret # None
    /\ Len(fused.data) >= 3

\* C2: a forward call with exactly one of img and audio that returns has
\* invoked the encoder of the present modality exactly once on that input and
\* the other encoder never, has not concatenated anything, and has invoked
\* the decoder exactly once with the call's text and the encoder's output as
\* prepend_embeds.
C2_SingleModality ==
    (pc = "returned" /\ (OnlyImg \/ OnlyAudio)) =>
        LET present == IF OnlyImg THEN "img_to_text_embedding"
                                  ELSE "audio_to_lang_embedding"
            absent == IF OnlyImg THEN "audio_to_lang_embedding"
                                 ELSE "img_to_text_embedding"
            input == IF OnlyImg THEN call.img ELSE call.audio
        IN  /\ Count(present) = 1
            /\ The(present).args = <<input>>
            /\ Count(absent) = 0
            /\ Count("torch.cat") = 0
            /\ fused = None
            /\ Count("decoder") = 1
            /\ The("decoder").args =
                   [text |-> call.text, prepend_embeds |-> The(present).out]
            /\ ret = The("decoder").out

C2_Witness ==
    /\ pc = "returned"
    /\ OnlyImg
    /\ Count("img_to_text_embedding") = 1
    /\ ret # None

\* C3: a forward call with text and neither img nor audio does exactly what a
\* direct decoder call on text does: the only invocation is one decoder call
\* whose sole argument is the text, and the call ends with the decoder's
\* result (its value, or the exception it raised).
C3_TextOnly ==
    (pc \in {"returned", "raised"} /\ TextOnly) =>
        /\ Len(trace) = 1
        /\ trace[1].fn = "decoder"
        /\ trace[1].args = [text |-> call.text]
        /\ pc = "returned" => ret = trace[1].out
        /\ pc = "raised" => exc = trace[1].out

C3_Witness ==
    /\ pc = "returned"
    /\ TextOnly
    /\ ret = DecoderOut([text |-> call.text])

\* C4: every forward call that ends in an exception has printed the line
\* "Failed in forward method: " with that exception last.
C4_ForwardLogged ==
    pc = "raised" =>
        /\ stdout # <<>>
        /\ stdout[Len(stdout)] =
               [prefix |-> "Failed in forward method: ", arg |-> exc]

SameBatchAndDim(ts) ==
    \A i, j \in 1..Len(ts) :
        /\ Len(ts[i].shape) = 3
        /\ ts[i].shape[1] = ts[j].shape[1]
        /\ ts[i].shape[3] = ts[j].shape[3]

\* C5: fusing [b, s_text, d], [b, s_img, d] and [b, s_audio, d] yields a
\* tensor of shape [b, s_text + s_img + s_audio, d].
C5_SequenceAxis ==
    (InCall /\ Count("torch.cat") = 1
            /\ SameBatchAndDim(The("torch.cat").args)) =>
        LET ts == The("torch.cat").args
            out == The("torch.cat").out
        IN  /\ out.kind = "Tensor"
            /\ out.shape = <<ts[1].shape[1],
                             ts[1].shape[2] + ts[2].shape[2] + ts[3].shape[2],
                             ts[1].shape[3]>>

\* C6: fusing tensors that do not all share batch size and hidden dimension
\* ends in an error: no fused sequence and no decoder call.
C6_MismatchRaises ==
    (InCall /\ Count("torch.cat") = 1
            /\ ~SameBatchAndDim(The("torch.cat").args)) =>
        /\ Raised(The("torch.cat"))
        /\ fused = None
        /\ Count("decoder") = 0

BuildFns == {"Transformer", "AutoregressiveWrapper",
             "ImageToTextEmbeddings", "AudioToEmbeddings"}

\* C7: when building a sub-module raises, nothing is built after it, the
\* constructor never completes, and its handler prints the exception exactly
\* once with the prefix "Failed to initialize gemini: " and raises that same
\* exception.
C7_InitFailure ==
    \A k \in DOMAIN trace :
        (trace[k].fn \in BuildFns /\ Raised(trace[k])) =>
            /\ k = Len(trace)
            /\ \A j \in k..4 : attrs[j] = None
            /\ pc \in {"L100", "init_raised"}
            /\ pc = "L100" => stdout = <<>>
            /\ pc = "init_raised" =>
                   /\ stdout = <<[prefix |-> "Failed to initialize gemini: ",
                                  arg |-> trace[k].out]>>
                   /\ exc = trace[k].out

C7_Witness ==
    /\ pc = "init_raised"
    /\ Len(trace) = 3
    /\ exc = Error("Exception", "ImageToTextEmbeddings")
    /\ decoder # None

\* C8: no step of a forward call changes the configuration or the attributes
\* gemini, decoder, img_to_text_embedding, audio_to_lang_embedding, and the
\* branch entered is the one selected by the call's own img and audio.
ForwardStepFrame ==
    pc \in ForwardPcs =>
        /\ UNCHANGED <<cfg, attrs>>
        /\ pc = "L132" => pc' = Branch(call.img, call.audio)

C8_ForwardFrame == [][ForwardStepFrame]_vars

C8_Witness ==
    /\ pc = "returned"
    /\ OnlyImg
    /\ img_to_text_embedding # None
    /\ img # call.img

\* C9: both encoders are built with the constructor's dim and embed into it.
C9_EncodersShareDim ==
    pc = "idle" =>
        \A enc \in {img_to_text_embedding, audio_to_lang_embedding} :
            /\ "dim" \in DOMAIN enc.kwargs
            /\ enc.kwargs.dim = cfg.dim
            /\ enc.out_dim = cfg.dim

\* C10: in a forward call the decoder is invoked at most once, after every
\* encoder of a present modality has returned, and never after an encoder or
\* the concatenation raised; with img and audio both present the image
\* encoder is invoked only after the audio encoder has returned.
C10_Ordering ==
    InCall =>
        /\ Count("decoder") <= 1
        /\ \A k \in Idx("decoder") :
              /\ \A j \in 1..(k - 1) : ~Raised(trace[j])
              /\ exists(call.img) =>
                    \E j \in 1..(k - 1) : trace[j].fn = "img_to_text_embedding"
              /\ exists(call.audio) =>
                    \E j \in 1..(k - 1) : trace[j].fn = "audio_to_lang_embedding"
        /\ \A i \in Idx("img_to_text_embedding") :
              BothPresent =>
                 \E j \in 1..(i - 1) :
                    /\ trace[j].fn = "audio_to_lang_embedding"
                    /\ ~Raised(trace[j])

C10_Witness ==
    /\ pc = "raised"
    /\ BothPresent
    /\ Len(trace) = 1
    /\ trace[1].fn = "audio_to_lang_embedding"
    /\ Raised(trace[1])
====
